---- MODULE Spec2Model ----
(***************************************************************************)
(* Amazon wishlist scraper (extension/src/contentScript.js): the page      *)
(* classifier, the item locator, the field extractor and the incremental   *)
(* collector, as a state machine over a notional page tree.                *)
(*                                                                         *)
(* Strings are sequences of tokens.  A token is one character ("B", "7",   *)
(* "/", "?") or a fixed word that the code never looks inside ("https:",   *)
(* "www.amazon.com", "dp", "ref=x").  An identifier is always spelled one  *)
(* character per token, so that its length and its alphabet are what the   *)
(* regular expressions of the code test.                                   *)
(***************************************************************************)
EXTENDS Integers, Sequences, FiniteSets, TLC

VARIABLES
    url,                \* window.location.href of the page
    tree,               \* the page's content tree, as the selectors see it
    pc,                 \* position of the scrapeWishlist invocation
    items,              \* scrapeWishlist: const items = []
    seenIds,            \* scrapeWishlist: const seenIds = new Set()
    previousItemCount,  \* scrapeWishlist: let previousItemCount
    scrollAttempts,     \* scrapeWishlist: let scrollAttempts
    response,           \* what the listener passed to sendResponse
    nExtract,           \* history: calls of extractItems in this run
    nScroll,            \* history: calls of window.scrollTo in this run
    treeChanged,        \* history: the tree was mutated during the latest settle wait
    shadowItems,        \* history: the run replayed without the failing candidates
    shadowSeen,         \* history: seen-set of that replay
    arg,                \* input of the function under test (function specifications)
    res,                \* its result
    worker,             \* the background worker's injectAndScrape call
    earlier             \* history: the responses of the runs that ended before this one

vars == <<url, tree, pc, items, seenIds, previousItemCount, scrollAttempts, response,
          nExtract, nScroll, treeChanged, shadowItems, shadowSeen, arg, res, worker, earlier>>

runVars == <<url, tree, pc, items, seenIds, previousItemCount, scrollAttempts, response,
             nExtract, nScroll, treeChanged, shadowItems, shadowSeen, earlier>>

-----------------------------------------------------------------------------
(* Bounds of the model *)

\* nodes in one tree
MaxNodes == 3
\* distinct product identifiers the page can ever serve
MaxIds == 11
\* how many of the earliest collected identifiers the page may serve again
ReplayIds == 1
\* nodes in an initial tree whose text and container signals are enumerated freely
MaxSignalNodes == 1
\* scrape requests in a behaviour of successive runs
MaxRuns == 2

(* Program constants *)

\* const maxScrollAttempts = 10
maxScrollAttempts == 10
\* {10} in /^[A-Z0-9]{10}$/i and in the href pattern
AsinLen == 10

-----------------------------------------------------------------------------
(* Strings *)

\* getAttribute() === null, querySelector() === null
Absent == <<"<absent>">>

UpperChars == {"A", "B", "Z"}
LowerChars == {"a", "b", "z"}
DigitChars == {"0", "1", "2", "3", "4", "5", "6", "7", "8", "9"}
\* characters outside [A-Za-z0-9]; the long s uppercases to "S" but is not in the class
OtherChars == {"-", " ", "LONG_S"}
Chars == UpperChars \cup LowerChars \cup DigitChars \cup OtherChars

\* String.prototype.toUpperCase, per character
UpperOf(c) ==
    CASE c = "a" -> "A"
      [] c = "b" -> "B"
      [] c = "z" -> "Z"
      [] c = "LONG_S" -> "S"
      [] OTHER -> c

\* String.prototype.toLowerCase on the words the patterns name
LowerOf(c) ==
    CASE c = "DP" -> "dp"
      [] c = "GP" -> "gp"
      [] c = "PRODUCT" -> "product"
      [] c = "WishList" -> "wishlist"
      [] c = "WISHLIST" -> "wishlist"
      [] OTHER -> c

toUpperCase(s) == [i \in 1..Len(s) |-> UpperOf(s[i])]

\* JavaScript truthiness of a string-or-null
Truthy(s) == s # Absent /\ s # <<>>

\* a || b on strings-or-null
OrElse(a, b) == IF Truthy(a) THEN a ELSE b

startsWith(s, c) == Len(s) >= 1 /\ s[1] = c

\* s.includes(c) for a one-token needle
includes(s, c) == \E i \in 1..Len(s) : s[i] = c

\* one character of the class [A-Z0-9] under the i flag (ASCII only: without the
\* u flag a non-ASCII character never folds onto an ASCII one)
IsAsinChar(c) == c \in UpperChars \cup LowerChars \cup DigitChars

\* /^[A-Z0-9]{10}$/i.test(s)
TestAsin(s) == Len(s) = AsinLen /\ \A i \in 1..Len(s) : IsAsinChar(s[i])

\* smallest index i >= from with s[i] in set, Len(s) + 1 when there is none
IndexFrom(s, from, set) ==
    LET hits == {i \in from..Len(s) : s[i] \in set}
    IN  IF hits = {} THEN Len(s) + 1 ELSE CHOOSE i \in hits : \A j \in hits : i <= j

\* s.slice(from - 1, to) in 1-based closed form; empty when from > to
Slice(s, from, to) == IF from > to THEN <<>> ELSE SubSeq(s, from, to)

-----------------------------------------------------------------------------
(* Identifier extraction: extractASINFromElement *)

\* ([A-Z0-9]{10})(?:[/?#]|$) at position j of h
CodeAt(h, j) ==
    /\ j + AsinLen - 1 <= Len(h)
    /\ \A i \in j..(j + AsinLen - 1) : IsAsinChar(h[i])
    /\ (j + AsinLen > Len(h) \/ h[j + AsinLen] \in {"/", "?", "#"})

\* position of the captured group when the pattern
\* /\/(?:dp|gp\/product)\/([A-Z0-9]{10})(?:[/?#]|$)/i matches at i, 0 otherwise
GroupAt(h, i) ==
    IF i + 2 <= Len(h) /\ h[i] = "/" /\ LowerOf(h[i + 1]) = "dp" /\ h[i + 2] = "/"
          /\ CodeAt(h, i + 3)
    THEN i + 3
    ELSE IF i + 4 <= Len(h) /\ h[i] = "/" /\ LowerOf(h[i + 1]) = "gp" /\ h[i + 2] = "/"
               /\ LowerOf(h[i + 3]) = "product" /\ h[i + 4] = "/" /\ CodeAt(h, i + 5)
    THEN i + 5
    ELSE 0

\* href.match(...): the captured group of the leftmost match, <<>> when no match
hrefMatch(h) ==
    LET hits == {i \in 1..Len(h) : GroupAt(h, i) > 0}
    IN  IF hits = {} THEN <<>>
        ELSE LET i == CHOOSE k \in hits : \A j \in hits : k <= j
             IN  SubSeq(h, GroupAt(h, i), GroupAt(h, i) + AsinLen - 1)

\* results of a call that may throw
Ok(v) == [raise |-> FALSE, val |-> v]
Raise == [raise |-> TRUE, val |-> <<>>]

\* the identifier test of line 221 without the toUpperCase of line 222
normalizeAsin_NoUpperCase(asin) == IF Truthy(asin) /\ TestAsin(asin) THEN asin ELSE <<>>

\* asin && /^[A-Z0-9]{10}$/i.test(asin) ? asin.toUpperCase() : (fall through)
normalizeAsin(asin) == IF Truthy(asin) /\ TestAsin(asin) THEN toUpperCase(asin) ELSE <<>>

\* extractASINFromElement(e), e = the attributes the function reads:
\*   dataAsin, dataItemId: the element's own attributes
\*   closestAsin: element.closest('[data-asin]')?.getAttribute('data-asin')
\*   link: href of querySelector('a[href*="/dp/"], a[href*="/gp/product/"]'), Absent
\*         when there is no such element;  linkSvg: that element's href property
\*         is an object (an SVG <a>), so href.match is not a function
asinOrLink(e, normalized) ==
    IF normalized # <<>> THEN Ok(normalized)
    ELSE IF e.link = Absent THEN Ok(<<>>)
    ELSE IF e.linkSvg THEN Raise
    ELSE IF Truthy(e.link) THEN Ok(toUpperCase(hrefMatch(e.link)))
    ELSE Ok(<<>>)

extractASINFromElement(e) ==
    asinOrLink(e, normalizeAsin(OrElse(OrElse(e.dataAsin, e.dataItemId), e.closestAsin)))

-----------------------------------------------------------------------------
(* URL cleaning: extractItemUrl *)

SchemeTokens == {"https:", "http:"}
HostTokens == {"www.amazon.com", "a.co"}
Origin == <<"https:", "/", "/", "www.amazon.com">>

\* new URL(h) for the special schemes: the slashes after the scheme are skipped
\* whatever their number, the host runs to the next "/", "?" or "#", the path
\* to the next "?" or "#"; an input without a scheme, with an empty host or
\* with a forbidden host character throws
ParseURL(h) ==
    LET afterSlashes == {i \in 2..Len(h) : h[i] # "/"}
        hs == IF afterSlashes = {} THEN Len(h) + 1
              ELSE CHOOSE i \in afterSlashes : \A j \in afterSlashes : i <= j
        he == IndexFrom(h, hs, {"/", "?", "#"})
        pe == IndexFrom(h, he, {"?", "#"})
        host == Slice(h, hs, he - 1)
    IN  IF Len(h) >= 1 /\ h[1] \in SchemeTokens /\ host # <<>>
             /\ \A i \in 1..Len(host) : host[i] \in HostTokens
        THEN [ok |-> TRUE,
              origin |-> <<h[1], "/", "/">> \o host,
              pathname |-> IF he = pe THEN <<"/">> ELSE Slice(h, he, pe - 1)]
        ELSE [ok |-> FALSE, origin |-> <<>>, pathname |-> <<>>]

\* root-relative prefixing of lines 351-353
absolute(href) == IF startsWith(href, "/") THEN Origin \o href ELSE href

\* the cleaning with url.href returned in place of origin and pathname
cleanHref_WholeUrl(href) == absolute(href)

\* lines 350-362: root-relative prefixing, then `${url.origin}${url.pathname}`,
\* or the href itself when new URL throws
cleanHref(href) ==
    LET u == ParseURL(absolute(href))
    IN  IF u.ok THEN u.origin \o u.pathname ELSE absolute(href)

\* extractItemUrl(element)
extractItemUrl(n) ==
    IF n.link = Absent THEN Ok(<<>>)
    ELSE IF n.linkSvg THEN Raise
    ELSE IF Truthy(n.link) THEN Ok(cleanHref(n.link))
    ELSE Ok(<<>>)

-----------------------------------------------------------------------------
(* Content nodes *)

\* A node, as the selectors and accessors of the code see it:
\*   inGItems     it is a descendant of #g-items
\*   inItemNamed  it is a descendant of an element matching [id*="item"]
\*   vertLi       it is an li under .a-unordered-list.a-nostyle.a-vertical
\*   sortable     it has class g-item-sortable
\*   dataAsin, dataItemId   its own attributes (Absent: no such attribute)
\*   ancestorAsin data-asin of the nearest proper ancestor carrying one
\*   link, linkSvg  its first descendant a[href*="/dp/"], a[href*="/gp/product/"]
\*   hasChild, c*   its first descendant matching
\*                  [data-asin], [href*="/dp/"], [href*="/gp/product/"]
PlainNode ==
    [inGItems |-> FALSE, inItemNamed |-> FALSE, vertLi |-> FALSE, sortable |-> FALSE,
     dataAsin |-> Absent, dataItemId |-> Absent, ancestorAsin |-> Absent,
     link |-> Absent, linkSvg |-> FALSE,
     hasChild |-> FALSE, cDataAsin |-> Absent, cDataItemId |-> Absent,
     cLink |-> Absent, cLinkSvg |-> FALSE]

DigitOf(d) == <<"0", "1", "2", "3", "4", "5", "6", "7", "8", "9">>[d + 1]

\* the i-th product identifier of the page, as the page spells it
AsinOf(i) == <<"B", "0", "0", "0", "0", "0", "0", "Z", DigitOf(i \div 10), DigitOf(i % 10)>>
LowerAsinOf(i) == <<"b", "0", "0", "0", "0", "0", "0", "z", DigitOf(i \div 10), DigitOf(i % 10)>>

\* a list item id of the page: not a product identifier
ItemId == <<"I", "Z", "9">>

ProductLink(i) == Origin \o <<"/", "dp", "/">> \o AsinOf(i) \o <<"/", "?", "ref=x", "#", "top">>
BadHostLink(i) ==
    <<"https:", "/", "/", "exa mple.com", "/", "gp", "/", "product", "/">> \o AsinOf(i)
        \o <<"?", "ref=x">>

Kinds == <<"card", "lower", "badhost", "gitem", "vchild", "itemc">>

\* the node of kind k carrying identifier i
NodeOf(k, i) ==
    CASE k = "card" -> [PlainNode EXCEPT !.dataAsin = AsinOf(i)]
      [] k = "lower" -> [PlainNode EXCEPT !.dataAsin = LowerAsinOf(i)]
      [] k = "gitem" ->
            [PlainNode EXCEPT !.inGItems = TRUE, !.inItemNamed = TRUE, !.dataItemId = ItemId,
                              !.link = ProductLink(i), !.hasChild = TRUE,
                              !.cLink = ProductLink(i)]
      [] k = "vchild" ->
            [PlainNode EXCEPT !.vertLi = TRUE, !.hasChild = TRUE, !.cDataAsin = AsinOf(i)]
      [] k = "badhost" ->
            [PlainNode EXCEPT !.dataAsin = AsinOf(i), !.link = BadHostLink(i),
                              !.hasChild = TRUE, !.cLink = BadHostLink(i)]
      [] k = "itemc" ->
            [PlainNode EXCEPT !.inItemNamed = TRUE, !.dataItemId = ItemId,
                              !.ancestorAsin = AsinOf(i), !.dataAsin = <<>>,
                              !.link = <<"/", "dp", "/">> \o LowerAsinOf(i), !.hasChild = TRUE,
                              !.cLink = <<"/", "dp", "/">> \o LowerAsinOf(i)]

\* a list item of #g-items with no product link yet: no identifier can be resolved
NoIdNode == [PlainNode EXCEPT !.inGItems = TRUE, !.inItemNamed = TRUE, !.dataItemId = ItemId]

\* a product card whose link is an SVG <a>: its href property is not a string
SvgNode ==
    [PlainNode EXCEPT !.dataAsin = AsinOf(0), !.link = <<"/", "dp", "/">> \o AsinOf(0),
                      !.linkSvg = TRUE, !.hasChild = TRUE,
                      !.cLink = <<"/", "dp", "/">> \o AsinOf(0), !.cLinkSvg = TRUE]

KindOf(i) == Kinds[((i - 1) % Len(Kinds)) + 1]

\* the nodes the page can serve
NodePool ==
    {NodeOf(KindOf(i), i) : i \in 1..MaxIds}
        \cup {NodeOf("lower", i) : i \in 1..ReplayIds}
        \cup {NodeOf("card", i) : i \in 1..ReplayIds}
        \cup {NoIdNode, SvgNode}

-----------------------------------------------------------------------------
(* Field extractor: extractItemData *)

\* the attributes extractASINFromElement reads on the candidate itself
ElemView(n) ==
    [dataAsin |-> n.dataAsin, dataItemId |-> n.dataItemId,
     closestAsin |-> IF n.dataAsin # Absent THEN n.dataAsin ELSE n.ancestorAsin,
     link |-> n.link, linkSvg |-> n.linkSvg]

\* ... and on asinElement, the descendant found at line 180
ChildView(n) ==
    [dataAsin |-> n.cDataAsin, dataItemId |-> n.cDataItemId,
     closestAsin |-> IF n.cDataAsin # Absent THEN n.cDataAsin ELSE ElemView(n).closestAsin,
     link |-> n.cLink, linkSvg |-> n.cLinkSvg]

\* lines 177-187: the identifier of the candidate; val = <<>> stands for return null
asinOrChild(n, first) ==
    IF first.raise \/ first.val # <<>> THEN first
    ELSE IF n.hasChild THEN extractASINFromElement(ChildView(n))
    ELSE Ok(<<>>)

resolveAsin(n) == asinOrChild(n, extractASINFromElement(ElemView(n)))

\* `https://www.amazon.com/dp/${asin}`
fallbackUrl(asin) == Origin \o <<"/", "dp", "/">> \o asin

NoItem == [asin |-> <<>>, url |-> <<>>]

\* extractItemData(element): val = NoItem stands for null
\* lines 184-207 on the results a of the identifier resolution and u of
\* extractItemUrl (which runs only when an identifier was found)
itemOf(a, u) ==
    IF a.raise THEN [raise |-> TRUE, val |-> NoItem]
    ELSE IF a.val = <<>> THEN [raise |-> FALSE, val |-> NoItem]
    ELSE IF u.raise THEN [raise |-> TRUE, val |-> NoItem]
    ELSE [raise |-> FALSE, val |-> [asin |-> a.val, url |-> OrElse(u.val, fallbackUrl(a.val))]]

extractItemData(n) == itemOf(resolveAsin(n), extractItemUrl(n))

-----------------------------------------------------------------------------
(* The page *)

\* A tree: its candidate nodes in document order, the containers that exist
\* (#g-items, [data-wishlist], .a-unordered-list.a-nostyle.a-vertical), the
\* phrases of document.body.textContent, the phrases that occur in the markup
\* only, and the texts of the [data-action="sign-in"], .a-alert-error elements.
MinimalTree(ns) ==
    [nodes |-> ns,
     gItems |-> \E p \in 1..Len(ns) : ns[p].inGItems,
     dataWishlist |-> FALSE,
     vertList |-> \E p \in 1..Len(ns) : ns[p].vertLi,
     bodyText |-> <<>>, markupText |-> <<>>, alerts |-> <<>>]

WellFormed(t) ==
    /\ (\E p \in 1..Len(t.nodes) : t.nodes[p].inGItems) => t.gItems
    /\ (\E p \in 1..Len(t.nodes) : t.nodes[p].vertLi) => t.vertList

Urls ==
    {<<"https:", "/", "/", "www.amazon.com", "/", "hz", "/", "wishlist", "/", "ls">>,
     <<"https:", "/", "/", "www.amazon.com", "/", "s", "?", "k=x">>}

BodyTexts == {<<>>, <<"Your Lists", "This list is private">>, <<"Your Lists">>}
MarkupTexts == {<<>>, <<"Sorry, we couldn't find that list">>}
AlertSets == {<<>>, << <<"Sign in to ", "view this list">> >>, << <<"Something went wrong">> >>}

-----------------------------------------------------------------------------
(* Item locator: findWishlistItems *)

\* '#g-items li[data-item-id], #g-items [data-item-id]'
Strategy1(n) == n.inGItems /\ n.dataItemId # Absent
\* '[id*="item"] [data-item-id], [id*="item"] [data-asin]'
Strategy2(n) == n.inItemNamed /\ (n.dataItemId # Absent \/ n.dataAsin # Absent)
\* '.a-unordered-list.a-nostyle.a-vertical li, .g-item-sortable'
Strategy3(n) == n.vertLi \/ n.sortable
\* '[data-asin]:not([data-asin=""])'
Strategy4(n) == n.dataAsin # Absent /\ n.dataAsin # <<>>

\* findWishlistItems returning the nodes of all four strategies together
findWishlistItems_Merged(t) ==
    LET AnyStrategy(n) == Strategy1(n) \/ Strategy2(n) \/ Strategy3(n) \/ Strategy4(n)
    IN  SelectSeq(t.nodes, AnyStrategy)

findWishlistItems(t) ==
    IF SelectSeq(t.nodes, Strategy1) # <<>> THEN SelectSeq(t.nodes, Strategy1)
    ELSE IF SelectSeq(t.nodes, Strategy2) # <<>> THEN SelectSeq(t.nodes, Strategy2)
    ELSE IF SelectSeq(t.nodes, Strategy3) # <<>> THEN SelectSeq(t.nodes, Strategy3)
    ELSE IF SelectSeq(t.nodes, Strategy4) # <<>> THEN SelectSeq(t.nodes, Strategy4)
    ELSE <<>>

-----------------------------------------------------------------------------
(* Page classifier: isWishlistPage, isPrivateWishlist *)

\* /wishlist/i.test(url)
hasWishlistInUrl(u) == \E i \in 1..Len(u) : LowerOf(u[i]) = "wishlist"

\* document.querySelector('#g-items, [data-wishlist], .a-unordered-list.a-nostyle.a-vertical')
hasWishlistStructure(t) == t.gItems \/ t.dataWishlist \/ t.vertList

\* isWishlistPage that also accepts whatever the locator finds
isWishlistPage_Locator(u, t) ==
    hasWishlistInUrl(u) \/ hasWishlistStructure(t) \/ Len(findWishlistItems(t)) > 0

\* isWishlistPage that looks at the URL only
isWishlistPage_UrlOnly(u, t) == hasWishlistInUrl(u)

isWishlistPage(u, t) == hasWishlistInUrl(u) \/ hasWishlistStructure(t)

privateIndicators ==
    {"This list is private", "This list is not available", "You don't have permission",
     "This list doesn't exist",
     "We're sorry. The Web address you entered is not a functioning page",
     "Sorry, we couldn't find that list"}

promptPhrases == {"view this list", "access this list", "private list"}

\* isPrivateWishlist without the locator test of lines 101-104
isPrivateWishlist_NoLocatorTest(t) ==
    IF /\ \E ind \in privateIndicators : includes(t.bodyText, ind) \/ includes(t.bodyText \o t.markupText, ind)
       /\ ~hasWishlistStructure(t)
    THEN TRUE
    ELSE \E a \in 1..Len(t.alerts) : \E ph \in promptPhrases : includes(t.alerts[a], ph)

\* isPrivateWishlist without the phrase scan of lines 121-130
isPrivateWishlist_AlertsOnly(t) ==
    IF Len(findWishlistItems(t)) > 0 THEN FALSE
    ELSE \E a \in 1..Len(t.alerts) : \E ph \in promptPhrases : includes(t.alerts[a], ph)

isPrivateWishlist(t) ==
    IF Len(findWishlistItems(t)) > 0 THEN FALSE
    ELSE IF /\ \E ind \in privateIndicators : includes(t.bodyText, ind) \/ includes(t.bodyText \o t.markupText, ind)
            /\ ~hasWishlistStructure(t)
    THEN TRUE
    ELSE \E a \in 1..Len(t.alerts) : \E ph \in promptPhrases : includes(t.alerts[a], ph)

-----------------------------------------------------------------------------
(* Incremental collector: scrapeWishlist *)

ErrNotWishlist == "Not on an Amazon wishlist page"
ErrPrivate == "This wishlist is private and cannot be scraped"
ErrNoItems == "No wishlist items found. The page structure may have changed."
NoResponse == [success |-> FALSE, items |-> <<>>, error |-> ""]
Success(its) == [success |-> TRUE, items |-> its, error |-> ""]
Failure(msg) == [success |-> FALSE, items |-> <<>>, error |-> msg]

ErrThrown == "TypeError"

\* The call of injectAndScrape: pc its position, attempt the argument of the
\* pending attemptMessage, sends and injections the sendMessage and
\* executeScript calls made, log the outcome of each send in order, resolved the
\* calls of resolve, result the value the promise settled with, reply what the
\* listener passed to sendResponse, requests the messages received so far.
WorkerIdle ==
    [pc |-> "idle", attempt |-> 0, sends |-> 0, injections |-> 0, log |-> <<>>,
     resolved |-> 0, result |-> NoResponse, reply |-> NoResponse, requests |-> 0]

\* collect without the seenIds test of line 35
collect_NoSeenCheck(acc, r) ==
    IF ~r.raise /\ r.val # NoItem /\ Truthy(r.val.asin)
    THEN [acc EXCEPT !.newItems = Append(acc.newItems, r.val),
                     !.seen = acc.seen \cup {r.val.asin}]
    ELSE acc

\* lines 33-41: the body of the forEach callback, on the accumulator
\* [newItems, seen, thrown] and the outcome r of extractItemData; an exception
\* of extractItemData is caught and logged, so the callback itself never throws
\* (thrown stays FALSE)
collect(acc, r) ==
    IF ~r.raise /\ r.val # NoItem /\ Truthy(r.val.asin) /\ r.val.asin \notin acc.seen
    THEN [acc EXCEPT !.newItems = Append(acc.newItems, r.val),
                     !.seen = acc.seen \cup {r.val.asin}]
    ELSE acc

\* the forEach callback without the try/catch of lines 33 and 39-41
visit_NoCatch(acc, element) ==
    IF extractItemData(element).raise THEN [acc EXCEPT !.thrown = TRUE]
    ELSE collect(acc, extractItemData(element))

\* the forEach callback on one element
visit(acc, element) == collect(acc, extractItemData(element))

\* Array.prototype.forEach: an exception of the callback ends the iteration
RECURSIVE forEach(_, _)
forEach(elements, acc) ==
    IF elements = <<>> \/ acc.thrown THEN acc
    ELSE forEach(Tail(elements), visit(acc, Head(elements)))

\* lines 28-45, extractItems over the nodes the locator returned
extractOver(elements, seen) ==
    forEach(elements, [newItems |-> <<>>, seen |-> seen, thrown |-> FALSE])

\* extractItems: the new items of the current tree, and seenIds afterwards
extractItems(t, seen) == extractOver(findWishlistItems(t), seen)

\* finish without the emptiness test of line 72
finish_NoEmptyCheck(its) == Success(its)

\* lines 72-76, and the listener's sendResponse
finish(its) == IF Len(its) = 0 THEN Failure(ErrNoItems) ELSE Success(its)

\* the candidate yields a record (extractItemData neither returns null nor throws)
IsRecord(r) == ~r.raise /\ r.val # NoItem
Yields(n) == IsRecord(extractItemData(n))

\* the index of the identifier a node resolves to, 0 when it resolves to none of the page's
IdxOf(n) ==
    LET a == resolveAsin(n)
    IN  IF ~a.raise /\ \E j \in 1..MaxIds : AsinOf(j) = a.val
        THEN CHOOSE j \in 1..MaxIds : AsinOf(j) = a.val
        ELSE 0

PoolIdx == [n \in NodePool |-> IdxOf(n)]
PoolYields == [n \in NodePool |-> Yields(n)]

\* Identifiers are opaque to the collector, so the page serves them in a fixed
\* order.  A node may carry one of the first ReplayIds identifiers once it was
\* collected, or a not yet collected identifier all of whose predecessors were
\* collected or stand before it in the tree; and the candidates that will yield
\* a new record do so in the order of the identifiers.
Allowed(ns, seenIdx) ==
    LET cands == findWishlistItems([nodes |-> ns])
        fresh(c, p) == PoolYields[c[p]] /\ PoolIdx[c[p]] \notin seenIdx
    IN  /\ \A p \in 1..Len(ns) :
              LET j == PoolIdx[ns[p]]
              IN  \/ j = 0
                  \/ j \in seenIdx /\ j <= ReplayIds
                  \/ /\ j \notin seenIdx
                     /\ \A k \in 1..(j - 1) :
                            k \in seenIdx \/ \E q \in 1..(p - 1) : PoolIdx[ns[q]] = k
        /\ \A p \in 1..Len(cands) :
              fresh(cands, p) =>
                  \A k \in 1..(PoolIdx[cands[p]] - 1) :
                      k \in seenIdx \/ \E q \in 1..(p - 1) :
                                          fresh(cands, q) /\ PoolIdx[cands[q]] = k

SeenIdx(seen) == {j \in 1..MaxIds : AsinOf(j) \in seen}

\* the allowed trees of at most n more nodes that extend ns
RECURSIVE Extensions(_, _, _)
Extensions(ns, n, seenIdx) ==
    IF n = 0 THEN {ns}
    ELSE {ns} \cup UNION {Extensions(Append(ns, x), n - 1, seenIdx) :
                             x \in {y \in NodePool : Allowed(Append(ns, y), seenIdx)}}

InitTrees ==
    {MinimalTree(ns) : ns \in Extensions(<<>>, MaxNodes, {})}
      \cup
    {t \in [nodes : Extensions(<<>>, MaxSignalNodes, {}),
            gItems : BOOLEAN, dataWishlist : BOOLEAN, vertList : BOOLEAN,
            bodyText : BodyTexts, markupText : MarkupTexts, alerts : AlertSets] :
        WellFormed(t)}

Init ==
    /\ url \in Urls
    /\ tree \in InitTrees
    /\ pc = "idle"
    /\ items = <<>>
    /\ seenIds = {}
    /\ previousItemCount = 0
    /\ scrollAttempts = 0
    /\ response = NoResponse
    /\ nExtract = 0
    /\ nScroll = 0
    /\ treeChanged = FALSE
    /\ shadowItems = <<>>
    /\ shadowSeen = {}
    /\ arg = <<>>
    /\ res = <<>>
    /\ worker = WorkerIdle
    /\ earlier = <<>>

\* the replay of one extractItems without the candidates that yield no record
ShadowAdd(sh) ==
    /\ shadowItems' = shadowItems \o sh.newItems
    /\ shadowSeen' = sh.seen

ShadowStep == ShadowAdd(extractOver(SelectSeq(findWishlistItems(tree), Yields), shadowSeen))

\* the run ends: lines 72-80 and the listener's then/catch (lines 469-477)
Done(its, resp) ==
    /\ pc' = "done"
    /\ items' = its
    /\ response' = resp
    /\ UNCHANGED <<previousItemCount, nScroll, treeChanged>>

\* the loop condition off by one
loopCondition_OffByOne(attempts) == attempts <= maxScrollAttempts

\* line 51: while (scrollAttempts < maxScrollAttempts)
loopCondition(attempts) == attempts < maxScrollAttempts

\* lines 52-58: the loop condition holds; snapshot, scroll, start the settle timer
Reveal(its, attempts) ==
    /\ pc' = "waiting"
    /\ items' = its
    /\ previousItemCount' = Len(its)
    /\ nScroll' = nScroll + 1
    /\ treeChanged' = FALSE
    /\ UNCHANGED response

\* the state of a run with the seen-set of the run before
locals_SeenCarried ==
    [items |-> <<>>, seenIds |-> seenIds, previousItemCount |-> 0, scrollAttempts |-> 0]

\* lines 21-24: the state a run of scrapeWishlist creates for itself
locals == [items |-> <<>>, seenIds |-> {}, previousItemCount |-> 0, scrollAttempts |-> 0]

\* lines 48-58 on the result e of the initial extractItems()
Extracted(e) ==
    /\ seenIds' = e.seen
    /\ nExtract' = nExtract + 1
    /\ ShadowStep
    /\ scrollAttempts' = locals.scrollAttempts
    /\ IF e.thrown THEN Done(locals.items \o e.newItems, Failure(ErrThrown))
       ELSE IF loopCondition(locals.scrollAttempts)
       THEN Reveal(locals.items \o e.newItems, locals.scrollAttempts)
       ELSE Done(locals.items \o e.newItems, finish(locals.items \o e.newItems))

\* Resumed without the stability check of line 65
Resumed_NoStabilityCheck(e, its) ==
    /\ seenIds' = e.seen
    /\ nExtract' = nExtract + 1
    /\ ShadowStep
    /\ IF e.thrown
       THEN Done(its, Failure(ErrThrown)) /\ UNCHANGED scrollAttempts
       ELSE /\ scrollAttempts' = scrollAttempts + 1
            /\ IF loopCondition(scrollAttempts + 1)
               THEN Reveal(its, scrollAttempts + 1)
               ELSE Done(its, finish(its))

\* lines 60-76 on the result e of extractItems() after the settle wait, its =
\* items afterwards
Resumed(e, its) ==
    /\ seenIds' = e.seen
    /\ nExtract' = nExtract + 1
    /\ ShadowStep
    /\ IF e.thrown
       THEN Done(its, Failure(ErrThrown)) /\ UNCHANGED scrollAttempts
       ELSE IF Len(its) = previousItemCount
       THEN Done(its, finish(its)) /\ UNCHANGED scrollAttempts
       ELSE /\ scrollAttempts' = scrollAttempts + 1
            /\ IF loopCondition(scrollAttempts + 1)
               THEN Reveal(its, scrollAttempts + 1)
               ELSE Done(its, finish(its))

\* The listener receives the scrape request: scrapeWishlist runs up to its first
\* await (lines 9-58): classifier, initial extraction, first scroll.
Start ==
    /\ pc = "idle"
    /\ UNCHANGED <<url, tree, arg, res, worker, earlier>>
    /\ IF ~isWishlistPage(url, tree) \/ isPrivateWishlist(tree)
       THEN /\ Done(items, Failure(IF ~isWishlistPage(url, tree) THEN ErrNotWishlist
                                   ELSE ErrPrivate))
            /\ UNCHANGED <<seenIds, scrollAttempts, nExtract, shadowItems, shadowSeen>>
       ELSE Extracted(extractItems(tree, locals.seenIds))

\* The settle timer fires: scrapeWishlist resumes (lines 60-76) and runs to its
\* next await or to its end.
TimerFired ==
    /\ pc = "waiting"
    /\ UNCHANGED <<url, tree, arg, res, worker, earlier>>
    /\ Resumed(extractItems(tree, seenIds),
               items \o extractItems(tree, seenIds).newItems)

\* The host page mutates the tree while the collector is suspended: it adds a
\* node at the end or removes one (any tree is reached by such steps).
PageChange ==
    /\ pc = "waiting"
    /\ \E ns \in {Append(tree.nodes, x) : x \in NodePool}
                 \cup {SubSeq(tree.nodes, 1, p - 1) \o SubSeq(tree.nodes, p + 1, Len(tree.nodes)) :
                          p \in 1..Len(tree.nodes)} :
          /\ Len(ns) <= MaxNodes
          /\ Allowed(ns, SeenIdx(seenIds))
          /\ tree' = MinimalTree(ns)
    /\ treeChanged' = TRUE
    /\ UNCHANGED <<url, pc, items, seenIds, previousItemCount, scrollAttempts, response,
                   nExtract, nScroll, shadowItems, shadowSeen, arg, res, worker, earlier>>

Next == Start \/ TimerFired \/ PageChange

Spec == Init /\ [][Next]_vars

\* the runs during which the page never mutates the tree
NextStatic == Start \/ TimerFired

SpecStatic == Init /\ [][NextStatic]_vars

\* lines 466-468: the run has answered and the listener receives the next
\* scrapeWishlist message; the finished run's state is what it was
ScrapeAgain ==
    /\ pc = "done"
    /\ Len(earlier) < MaxRuns - 1
    /\ pc' = "idle"
    /\ earlier' = Append(earlier, response)
    /\ response' = NoResponse
    /\ nExtract' = 0 /\ nScroll' = 0 /\ treeChanged' = FALSE
    /\ shadowItems' = <<>> /\ shadowSeen' = {}
    /\ UNCHANGED <<url, tree, items, seenIds, previousItemCount, scrollAttempts, arg, res, worker>>

\* successive runs on a page that never mutates the tree
NextRuns == Start \/ TimerFired \/ ScrapeAgain

SpecRuns == Init /\ [][NextRuns]_vars

-----------------------------------------------------------------------------
(* Image resolution: extractItemImage *)

\* An img element, as extractItemImage reads it:
\*   dyn       its data-a-dynamic-image attribute: json = "absent" (no such
\*             attribute), "empty" (the empty string), "invalid" (JSON.parse or
\*             Object.keys throws) or "parsed", with keys = Object.keys of the
\*             parsed value in their order
\*   dataSrc, srcAttr   getAttribute('data-src'), getAttribute('src')
\*   srcProp   the src property (the browser's absolute form of srcAttr)
\*   classDyn  it has class a-dynamic-image
\*   inDynClass, inLatency  it is a descendant of .a-dynamic-image, of [data-image-latency]
NoDyn == [json |-> "absent", keys |-> <<>>]

\* imageSelectors[k] matches the img
imageSelector(k, img) ==
    CASE k = 1 -> img.dyn.json # "absent"
      [] k = 2 -> img.dataSrc # Absent
      [] k = 3 -> img.classDyn
      [] k = 4 -> img.inDynClass
      [] k = 5 -> img.inLatency
      [] k = 6 -> img.srcAttr # Absent
imageSelectorCount == 6

\* imageUrl.startsWith('//')
startsWithSlashes(s) == Len(s) >= 2 /\ s[1] = "/" /\ s[2] = "/"

\* lines 404-408, 418-422, 434-438, 448-452
absoluteImage(imageUrl) ==
    IF startsWithSlashes(imageUrl) THEN <<"https:">> \o imageUrl
    ELSE IF startsWith(imageUrl, "/") THEN Origin \o imageUrl
    ELSE imageUrl

\* lines 431, 447: the placeholder tests of the loop and of the fallback
isPlaceholder(s) == includes(s, "pixel") \/ includes(s, "placeholder") \/ includes(s, "data:image")
isPlaceholderFallback(s) == includes(s, "pixel") \/ includes(s, "placeholder")

Return(v) == [ret |-> TRUE, val |-> v]
Continue == [ret |-> FALSE, val |-> <<>>]

\* lines 428-439 on imageUrl = img.getAttribute('src') || img.src
fromSrc(imageUrl) ==
    IF ~Truthy(imageUrl) \/ isPlaceholder(imageUrl) THEN Continue
    ELSE Return(absoluteImage(imageUrl))

\* lines 390-440: the body of the selector loop for the img found
fromImg(img) ==
    IF img.dyn.json = "parsed" /\ Len(img.dyn.keys) > 0
    THEN Return(absoluteImage(img.dyn.keys[Len(img.dyn.keys)]))
    ELSE IF Truthy(img.dataSrc) THEN Return(absoluteImage(img.dataSrc))
    ELSE fromSrc(OrElse(img.srcAttr, img.srcProp))

\* element.querySelector(imageSelectors[k]): the first img in document order, <<>> when none
queryImage(imgs, k) ==
    LET Matches(img) == imageSelector(k, img)
    IN  SelectSeq(imgs, Matches)

\* lines 444-454: the fallback on anyImg.src || anyImg.getAttribute('src')
fallbackSrc(imageUrl) ==
    IF Truthy(imageUrl) /\ ~isPlaceholderFallback(imageUrl) THEN absoluteImage(imageUrl)
    ELSE <<>>

fallbackImage(imgs) ==
    IF imgs = <<>> THEN <<>>
    ELSE fallbackSrc(OrElse(imgs[1].srcProp, imgs[1].srcAttr))

\* the for loop of lines 386-441 from selector k on, then the fallback
RECURSIVE imageFrom(_, _)
imageFrom(imgs, k) ==
    IF k > imageSelectorCount THEN fallbackImage(imgs)
    ELSE IF queryImage(imgs, k) # <<>> /\ fromImg(queryImage(imgs, k)[1]).ret
    THEN fromImg(queryImage(imgs, k)[1]).val
    ELSE imageFrom(imgs, k + 1)

\* extractItemImage(element), imgs = the img descendants of the element
extractItemImage(imgs) == imageFrom(imgs, 1)

-----------------------------------------------------------------------------
(* CSV export: escapeCSVField *)

\* str.replace(/"/, '""'): only the first quote is doubled
replaceQuotes_FirstOnly(str) ==
    IF \E i \in 1..Len(str) : str[i] = "\""
    THEN SubSeq(str, 1, (CHOOSE i \in 1..Len(str) : str[i] = "\"" /\ \A j \in 1..(i - 1) : str[j] # "\""))
         \o <<"\"">>
         \o SubSeq(str, (CHOOSE i \in 1..Len(str) : str[i] = "\"" /\ \A j \in 1..(i - 1) : str[j] # "\""), Len(str))
    ELSE str

\* str.replace(/"/g, '""')
RECURSIVE replaceQuotes(_)
replaceQuotes(str) ==
    IF str = <<>> THEN <<>>
    ELSE IF Head(str) = "\"" THEN <<"\"", "\"">> \o replaceQuotes(Tail(str))
    ELSE <<Head(str)>> \o replaceQuotes(Tail(str))

escapeCSVField(field) ==
    IF field = Absent THEN <<>>
    ELSE IF includes(field, ",") \/ includes(field, "\"") \/ includes(field, "\n")
    THEN <<"\"">> \o replaceQuotes(field) \o <<"\"">>
    ELSE field

\* the field of a row: item.name || ''
fieldOf(v) == escapeCSVField(OrElse(v, <<>>))

-----------------------------------------------------------------------------
(* Price resolution: extractItemPrice, formatPrice *)

\* the characters of a price text: currency sign, separators, a digit, a letter
PriceChars == {"$", ",", ".", "1", "a"}

\* String(price).replace(/,/g, '')
cleaned(price) == LET NotComma(c) == c # "," IN SelectSeq(price, NotComma)

formatPrice(price) ==
    IF ~Truthy(price) THEN <<>>
    ELSE IF includes(cleaned(price), "$") THEN cleaned(price)
    ELSE <<"$">> \o cleaned(price)

\* ([\d,]+\.?\d*) from position i, where j is the end of the [\d,]+ run
groupUpTo(s, i, j) ==
    IF j <= Len(s) /\ s[j] = "."
    THEN SubSeq(s, i, IndexFrom(s, j + 1, PriceChars \ DigitChars) - 1)
    ELSE SubSeq(s, i, j - 1)

\* priceText.match(/[\$]?([\d,]+\.?\d*)/): the captured group of the leftmost
\* match, Absent without a match
priceMatch(s) ==
    IF IndexFrom(s, 1, DigitChars \cup {","}) > Len(s) THEN Absent
    ELSE groupUpTo(s, IndexFrom(s, 1, DigitChars \cup {","}),
                   IndexFrom(s, IndexFrom(s, 1, DigitChars \cup {","}),
                             PriceChars \ (DigitChars \cup {","})))

\* lines 294-310 for the element priceEl a selector found: its data-price
\* attribute, else the pattern in its text, else the text
priceOf(priceEl) ==
    IF Truthy(priceEl.dataPrice) THEN formatPrice(priceEl.dataPrice)
    ELSE IF Truthy(priceEl.text) /\ priceMatch(priceEl.text) # Absent
    THEN formatPrice(priceMatch(priceEl.text))
    ELSE priceEl.text

-----------------------------------------------------------------------------
(* The pure functions of the extractor, applied to enumerated inputs *)

\* longest string handed to the identifier test
MaxStrLen == 11

ReplaceAt(str, p, c) == [i \in 1..Len(str) |-> IF i = p THEN c ELSE str[i]]

\* a mixed-case alphanumeric string of length n
Pattern(n) == [i \in 1..n |-> <<"b", "0", "A", "7", "z", "9", "B", "1", "a", "Z", "3", "a">>[((i - 1) % 12) + 1]]

\* identifier-like strings: every length up to MaxStrLen, with any one
\* character replaced by a letter of either case, a digit or another character
AsinInputs ==
    {Pattern(n) : n \in 0..MaxStrLen}
      \cup {ReplaceAt(Pattern(n), p, c) :
               n \in (AsinLen - 1)..MaxStrLen, p \in 1..MaxStrLen, c \in {"-", " ", "LONG_S", "A", "z", "5"}}

\* attribute values of a node: none, empty, valid, too short, malformed
AttrInputs ==
    {Absent, <<>>, Pattern(AsinLen), Pattern(AsinLen - 1), ReplaceAt(Pattern(AsinLen), 4, "-")}

\* hrefs: prefix, path, query, fragment
HrefPrefixes ==
    {<<>>, <<"x">>, <<"/", "/", "a.co">>, <<"https:", "/", "/", "www.amazon.com">>,
     <<"http:", "/", "a.co">>, <<"https:", "/", "/", "exa mple.com">>, <<"https:">>}
HrefPaths ==
    {<<>>, <<"/">>, <<"/", "dp", "/">> \o LowerAsinOf(7),
     <<"/", "x", "/", "DP", "/">> \o AsinOf(7) \o <<"/">>,
     <<"/", "gp", "/", "product", "/">> \o AsinOf(7) \o <<"5">>,
     <<"/", "gp", "/", "product", "/">> \o AsinOf(8)}
HrefQueries == {<<>>, <<"?">>, <<"?", "ref=x">>, <<"?", "u=", "/", "dp", "/">> \o AsinOf(9)}
HrefFragments == {<<>>, <<"#">>, <<"#", "top">>, <<"#", "top", "?", "ref=x">>}
HrefInputs ==
    {a \o b \o c \o d : a \in HrefPrefixes, b \in HrefPaths, c \in HrefQueries,
                        d \in HrefFragments}

\* links of a node
LinkInputs ==
    {Absent, <<>>,
     <<"/", "dp", "/">> \o LowerAsinOf(7) \o <<"?", "ref=x">>,
     <<"https:", "/", "/", "exa mple.com", "/", "gp", "/", "product", "/">> \o AsinOf(8) \o <<"#", "top">>,
     <<"/", "dp", "/">> \o AsinOf(7) \o <<"5">>}

NodeInputs ==
    {[PlainNode EXCEPT !.dataAsin = a, !.dataItemId = b, !.ancestorAsin = c,
                       !.link = l, !.linkSvg = (l # Absent /\ v),
                       !.hasChild = (l # Absent \/ ca # Absent),
                       !.cDataAsin = ca, !.cLink = l, !.cLinkSvg = (l # Absent /\ v)] :
        a \in AttrInputs, b \in AttrInputs, c \in AttrInputs, l \in LinkInputs,
        v \in BOOLEAN, ca \in {Absent, <<>>, Pattern(AsinLen)}}

\* image sources: absolute, scheme-relative, root-relative, path-relative, placeholders
ImgAbs == <<"https:", "/", "/", "m.media-amazon.com", "/", "a.jpg">>
ImgSchemeRel == <<"/", "/", "m.media-amazon.com", "/", "a.jpg">>
ImgRootRel == <<"/", "images", "/", "a.jpg">>
ImgPathRel == <<"img", "/", "x.jpg">>
ImgPixel == <<"https:", "/", "/", "m.media-amazon.com", "/", "pixel", ".gif">>
ImgData == <<"data:image", "/gif;base64,R0">>

\* img.src: the browser's absolute form of the src attribute, '' without one
srcOf(attr) ==
    IF ~Truthy(attr) THEN <<>>
    ELSE IF startsWithSlashes(attr) THEN <<"https:">> \o attr
    ELSE IF startsWith(attr, "/") THEN Origin \o attr
    ELSE IF attr = ImgPathRel THEN Origin \o <<"/", "hz", "/">> \o attr
    ELSE attr

\* data-a-dynamic-image values: none, '', not JSON, {}, objects, and the array
\* ["a","b"], whose Object.keys are its indices
DynInputs ==
    {NoDyn, [json |-> "empty", keys |-> <<>>], [json |-> "invalid", keys |-> <<>>],
     [json |-> "parsed", keys |-> <<>>],
     [json |-> "parsed", keys |-> <<ImgAbs, ImgPathRel>>],
     [json |-> "parsed", keys |-> <<ImgPathRel, ImgSchemeRel>>],
     [json |-> "parsed", keys |-> <<ImgRootRel>>],
     [json |-> "parsed", keys |-> << <<"0">>, <<"1">> >>]}

ImgPlaces == {"plain", "classDyn", "inDynClass", "inLatency"}

ImgOf(d, ds, sa, place) ==
    [dyn |-> d, dataSrc |-> ds, srcAttr |-> sa, srcProp |-> srcOf(sa),
     classDyn |-> (place = "classDyn"), inDynClass |-> (place = "inDynClass"),
     inLatency |-> (place = "inLatency")]

ImgInputs ==
    {ImgOf(d, ds, sa, place) :
        d \in DynInputs, ds \in {Absent, <<>>, ImgSchemeRel, ImgRootRel, ImgPathRel},
        sa \in {Absent, ImgAbs, ImgSchemeRel, ImgRootRel, ImgPathRel, ImgPixel, ImgData},
        place \in ImgPlaces}

\* imgs of elements with two images
ImgPairPool ==
    {ImgOf(NoDyn, Absent, ImgPixel, "classDyn"), ImgOf(NoDyn, Absent, ImgData, "plain"),
     ImgOf(NoDyn, Absent, ImgRootRel, "plain"), ImgOf(NoDyn, ImgSchemeRel, Absent, "plain"),
     ImgOf([json |-> "invalid", keys |-> <<>>], Absent, ImgPathRel, "inLatency"),
     ImgOf([json |-> "parsed", keys |-> <<ImgAbs>>], Absent, Absent, "plain")}

\* the img descendants of an element
ImageInputs ==
    {<<>>} \cup {<<i>> : i \in ImgInputs} \cup {<<i, j>> : i \in ImgPairPool, j \in ImgPairPool}

MaxPriceLen == 3

\* price elements: every data-price value up to MaxPriceLen, with some texts
PriceInputs ==
    [dataPrice : {Absent} \cup UNION {[1..n -> PriceChars] : n \in 0..MaxPriceLen},
     text : {<<>>, <<"a">>, <<"$", "1", ",", "1", "1", "1", ".", "1", "1", "a">>,
             <<"a", ",", "1", ".", ".">>}]

MaxFieldLen == 4

FieldChars == {"a", ",", "\"", "\n"}

\* values of a record field: null, and every string over FieldChars
FieldInputs == {Absent} \cup UNION {[1..n -> FieldChars] : n \in 0..MaxFieldLen}

InitFn ==
    /\ url = <<>>
    /\ tree = MinimalTree(<<>>)
    /\ pc = "fn"
    /\ items = <<>>
    /\ seenIds = {}
    /\ previousItemCount = 0
    /\ scrollAttempts = 0
    /\ response = NoResponse
    /\ nExtract = 0
    /\ nScroll = 0
    /\ treeChanged = FALSE
    /\ shadowItems = <<>>
    /\ shadowSeen = {}
    /\ \/ \E x \in AsinInputs : arg = [fn |-> "asin", x |-> x]
       \/ \E x \in HrefInputs : arg = [fn |-> "href", x |-> x]
       \/ \E x \in NodeInputs : arg = [fn |-> "node", x |-> x]
       \/ \E x \in ImageInputs : arg = [fn |-> "image", x |-> x]
       \/ \E x \in FieldInputs : arg = [fn |-> "csv", x |-> x]
       \/ \E x \in PriceInputs : arg = [fn |-> "price", x |-> x]
    /\ res = <<>>
    /\ worker = WorkerIdle
    /\ earlier = <<>>

\* the input of the next application: the argument, then the previous result
Operand == IF res = <<>> THEN arg.x ELSE res[Len(res)]

\* the identifier test and normalization of lines 221-223, applied and re-applied
ApplyNormalize ==
    /\ arg.fn = "asin"
    /\ Len(res) < 2
    /\ res' = Append(res, normalizeAsin(Operand))
    /\ UNCHANGED <<runVars, arg, worker>>

\* the URL cleaning of lines 350-362, applied and re-applied
ApplyCleanHref ==
    /\ arg.fn = "href"
    /\ Len(res) < 2
    /\ res' = Append(res, cleanHref(Operand))
    /\ UNCHANGED <<runVars, arg, worker>>

\* extractItemData on one node
ApplyExtractItemData ==
    /\ arg.fn = "node"
    /\ res = <<>>
    /\ res' = <<extractItemData(arg.x)>>
    /\ UNCHANGED <<runVars, arg, worker>>

\* extractItemImage on the images of one element
ApplyExtractItemImage ==
    /\ arg.fn = "image"
    /\ res = <<>>
    /\ res' = <<extractItemImage(arg.x)>>
    /\ UNCHANGED <<runVars, arg, worker>>

\* a record field through exportToCSV's escaping
ApplyEscapeCSVField ==
    /\ arg.fn = "csv"
    /\ res = <<>>
    /\ res' = <<fieldOf(arg.x)>>
    /\ UNCHANGED <<runVars, arg, worker>>

\* the price of one price element
ApplyExtractItemPrice ==
    /\ arg.fn = "price"
    /\ res = <<>>
    /\ res' = <<priceOf(arg.x)>>
    /\ UNCHANGED <<runVars, arg, worker>>

NextFn ==
    \/ ApplyNormalize
    \/ ApplyCleanHref
    \/ ApplyExtractItemData
    \/ ApplyExtractItemImage
    \/ ApplyEscapeCSVField
    \/ ApplyExtractItemPrice

SpecFn == InitFn /\ [][NextFn]_vars

\* scrapeWishlist on a document that does not change during the run
StaticResult(u, t) ==
    IF ~isWishlistPage(u, t) THEN Failure(ErrNotWishlist)
    ELSE IF isPrivateWishlist(t) THEN Failure(ErrPrivate)
    ELSE finish(extractItems(t, {}).newItems)

-----------------------------------------------------------------------------
(* The background worker: injectAndScrape and the relay listener *)

\* messages the listener receives in a behaviour
MaxRequests == 2

\* line 7: retries = 3
retries == 3

\* chrome.runtime.lastError is set in the callback of a send
LastError == [lastError |-> TRUE]

\* a callback's response argument when the content script sent nothing
Undefined == [undefined |-> TRUE]

\* what the content script's listener answers with
ContentResponses ==
    {Undefined, Success(<<[asin |-> AsinOf(1), url |-> <<>>]>>), Failure(ErrNotWishlist),
     Failure(ErrPrivate), Failure(ErrNoItems), Failure(ErrThrown)}

\* response || { success: false, error: 'No response from content script' }
orNoResponse(resp) ==
    IF resp = Undefined THEN Failure("No response from content script") ELSE resp

\* resolve(v): the first call settles the promise
resolve(w, v) ==
    [w EXCEPT !.pc = "resolved", !.resolved = @ + 1,
              !.result = IF w.resolved = 0 THEN v ELSE @]

\* attemptMessage(attempt): arms the timer of line 32
attemptMessage(w, attempt) == [w EXCEPT !.pc = "timer", !.attempt = attempt]

\* the callback of lines 33-45 with the retry test off by one
onResponse_OffByOne(w, outcome) ==
    IF outcome = LastError /\ w.attempt <= retries THEN attemptMessage(w, w.attempt + 1)
    ELSE IF outcome = LastError
    THEN resolve(w, Failure("Failed to communicate with content script"))
    ELSE resolve(w, orNoResponse(outcome))

\* lines 33-45: the callback of a send made after the injection
onResponse(w, outcome) ==
    IF outcome = LastError /\ w.attempt < retries THEN attemptMessage(w, w.attempt + 1)
    ELSE IF outcome = LastError
    THEN resolve(w, Failure("Failed to communicate with content script"))
    ELSE resolve(w, orNoResponse(outcome))

\* lines 55-74: a scrapeWishlist message reaches the listener; without an Amazon
\* tab it answers at once, otherwise it calls injectAndScrape, which makes its
\* first send
Request ==
    /\ worker.pc \in {"idle", "replied"}
    /\ worker.requests < MaxRequests
    /\ \E tab \in {"none", "other", "amazon"} :
          worker' = IF tab = "none"
                    THEN [WorkerIdle EXCEPT !.requests = worker.requests + 1, !.pc = "replied",
                                            !.reply = Failure("No active tab found")]
                    ELSE IF tab = "other"
                    THEN [WorkerIdle EXCEPT !.requests = worker.requests + 1, !.pc = "replied",
                                            !.reply = Failure("Please navigate to an Amazon wishlist page")]
                    ELSE [WorkerIdle EXCEPT !.requests = worker.requests + 1,
                                            !.pc = "firstSend", !.sends = 1]
    /\ UNCHANGED <<runVars, arg, res>>

\* lines 10-21: the callback of the first send
FirstResponse ==
    /\ worker.pc = "firstSend"
    /\ \E outcome \in {LastError} \cup ContentResponses :
          worker' = IF outcome # LastError
                    THEN resolve([worker EXCEPT !.log = Append(@, outcome)], orNoResponse(outcome))
                    ELSE [worker EXCEPT !.log = Append(@, outcome), !.pc = "injecting",
                                        !.injections = @ + 1]
    /\ UNCHANGED <<runVars, arg, res>>

\* lines 21-49: the callback of executeScript
Injected ==
    /\ worker.pc = "injecting"
    /\ \E failed \in BOOLEAN :
          worker' = IF failed THEN resolve(worker, Failure("Failed to inject content script"))
                    ELSE attemptMessage(worker, 0)
    /\ UNCHANGED <<runVars, arg, res>>

\* lines 32-33: the timer elapses and the request is sent again
TimerElapsed ==
    /\ worker.pc = "timer"
    /\ worker' = [worker EXCEPT !.pc = "sending", !.sends = @ + 1]
    /\ UNCHANGED <<runVars, arg, res>>

\* lines 33-45: the callback of that send
Response ==
    /\ worker.pc = "sending"
    /\ \E outcome \in {LastError} \cup ContentResponses :
          worker' = onResponse([worker EXCEPT !.log = Append(@, outcome)], outcome)
    /\ UNCHANGED <<runVars, arg, res>>

\* lines 74-75: the await resumes and the listener answers the popup
Reply ==
    /\ worker.pc = "resolved"
    /\ worker' = [worker EXCEPT !.pc = "replied", !.reply = worker.result]
    /\ UNCHANGED <<runVars, arg, res>>

InitInject ==
    /\ url = <<>>
    /\ tree = MinimalTree(<<>>)
    /\ pc = "bg"
    /\ items = <<>>
    /\ seenIds = {}
    /\ previousItemCount = 0
    /\ scrollAttempts = 0
    /\ response = NoResponse
    /\ nExtract = 0
    /\ nScroll = 0
    /\ treeChanged = FALSE
    /\ shadowItems = <<>>
    /\ shadowSeen = {}
    /\ arg = <<>>
    /\ res = <<>>
    /\ worker = WorkerIdle
    /\ earlier = <<>>

NextInject ==
    \/ Request
    \/ FirstResponse
    \/ Injected
    \/ TimerElapsed
    \/ Response
    \/ Reply

\* every callback and timer the worker waits for is eventually run
SpecInject == InitInject /\ [][NextInject]_vars /\ WF_vars(NextInject)

-----------------------------------------------------------------------------
(* Properties of the collector *)

NoDuplicateIds(its) ==
    \A i, j \in 1..Len(its) : i # j => its[i].asin # its[j].asin

\* a step that runs extractItems
ExtractStep == nExtract' = nExtract + 1

\* C1: in every run, whatever the page does between reveal cycles, no two
\* records of the accumulated or returned sequence share an identifier, and an
\* Extract cycle against a tree unchanged since the previous Extract adds no record.
C1_Deduplication ==
    /\ [](NoDuplicateIds(items) /\ NoDuplicateIds(response.items))
    /\ [][(pc = "waiting" /\ ~treeChanged /\ ExtractStep) => items' = items]_vars

\* a run of at least three Extract cycles has ended with two or more records
\* while the tree still serves a node whose identifier was collected in an
\* earlier cycle, in another spelling than the one collected
C1_Witness ==
    /\ pc = "done" /\ nExtract >= 3 /\ Len(items) >= 2 /\ response.success
    /\ \E p \in 1..Len(tree.nodes) :
          /\ tree.nodes[p].dataAsin = LowerAsinOf(1)
          /\ items[1].asin = AsinOf(1)

\* C2: the collector loop ends after at most maxScrollAttempts reveal cycles,
\* even when every cycle brings a new identifier: window.scrollTo is called at
\* most 10 times, extractItems at most 11 times, and a suspended run has
\* strictly fewer than 10 counted attempts.
C2_AtMostTenReveals ==
    /\ nScroll <= maxScrollAttempts
    /\ nExtract <= maxScrollAttempts + 1
    /\ scrollAttempts <= maxScrollAttempts
    /\ (pc = "waiting" => scrollAttempts < maxScrollAttempts /\ nScroll = scrollAttempts + 1)

\* the run was stopped by the ceiling: ten reveals, each of which grew the sequence
C2_Witness ==
    /\ pc = "done" /\ nScroll = maxScrollAttempts /\ scrollAttempts = maxScrollAttempts
    /\ Len(items) > previousItemCount /\ Len(items) >= maxScrollAttempts

\* C3: every invocation ends in exactly one outcome: a non-empty record
\* sequence relayed as {success: true, items}, or one of the three failures
\* relayed as {success: false, error}; never an empty success; an empty
\* accumulated sequence at the end of the loop yields NoItemsFound; and nothing
\* is relayed before the run ends or after it.
C3_OneTerminalOutcome ==
    /\ [](pc # "done" => response = NoResponse)
    /\ [](pc = "done" =>
            \/ /\ response.success /\ response.items = items /\ Len(items) > 0
               /\ response.error = ""
            \/ /\ ~response.success /\ response.items = <<>>
               /\ response.error \in {ErrNotWishlist, ErrPrivate, ErrNoItems}
               /\ (response.error = ErrNoItems <=> nExtract > 0)
               /\ Len(items) = 0)
    /\ [][pc = "done" => response' = response /\ pc' = pc]_vars

\* a run that passed the classifier, revealed once and found nothing twice
C3_Witness ==
    pc = "done" /\ response.error = ErrNoItems /\ nScroll >= 1 /\ nExtract >= 2

\* C4: when the classifier sees neither a wishlist URL nor a structural match,
\* the run fails with NotAWishlistPage in its first step, before any Extract
\* and any reveal.
C4_FailFastNotAWishlist ==
    [][(pc = "idle" /\ ~hasWishlistInUrl(url) /\ ~hasWishlistStructure(tree)) =>
          /\ pc' = "done"
          /\ response' = Failure(ErrNotWishlist)
          /\ nExtract' = 0 /\ nScroll' = 0 /\ items' = <<>> /\ seenIds' = {}]_vars

\* such a run has ended, on a page that even shows the private-list phrase
C4_Witness ==
    /\ pc = "done" /\ response.error = ErrNotWishlist /\ nScroll = 0 /\ nExtract = 0
    /\ includes(tree.bodyText, "This list is private")

\* the page shows the private-list phrase, the locator returns no node and no
\* structural anchor is present
PrivatePhraseOnly ==
    /\ includes(tree.bodyText, "This list is private")
    /\ findWishlistItems(tree) = <<>>
    /\ ~(tree.gItems \/ tree.dataWishlist \/ tree.vertList)

FailsPrivate ==
    /\ pc' = "done" /\ response' = Failure(ErrPrivate)
    /\ nExtract' = 0 /\ nScroll' = 0

\* C5 as stated: a page with the text "This list is private" and zero
\* structural matches fails with PrivateOrInaccessible, whatever its URL.
C5_PrivateWhateverUrl ==
    [][(pc = "idle" /\ PrivatePhraseOnly) => FailsPrivate]_vars

\* C5: a page whose URL matches the wishlist pattern, with the text "This list
\* is private" and zero structural matches, fails with PrivateOrInaccessible
\* before any Extract and any reveal; with another URL the same page is
\* rejected earlier, as NotAWishlistPage.
C5_PrivateOnWishlistUrl ==
    [][(pc = "idle" /\ PrivatePhraseOnly) =>
          IF hasWishlistInUrl(url) THEN FailsPrivate
          ELSE pc' = "done" /\ response' = Failure(ErrNotWishlist)]_vars

\* a run on such a page, reached by a wishlist URL, has ended as private
C5_Witness ==
    /\ pc = "done" /\ response.error = ErrPrivate /\ nExtract = 0
    /\ hasWishlistInUrl(url) /\ PrivatePhraseOnly
    /\ tree.alerts = <<>>

\* some node of the tree matches one of the locator's four structural patterns
LocatorMatches(t) ==
    \E p \in 1..Len(t.nodes) :
        Strategy1(t.nodes[p]) \/ Strategy2(t.nodes[p]) \/ Strategy3(t.nodes[p])
            \/ Strategy4(t.nodes[p])

\* the run is rejected as NotAWishlistPage
RejectsPage == pc' = "done" /\ response' = Failure(ErrNotWishlist)

ValidId(a) == Len(a) = AsinLen /\ \A i \in 1..Len(a) : a[i] \in UpperChars \cup DigitChars

\* the n >= 1 candidates carry distinct valid identifiers
CarryDistinctValidIds(c) ==
    /\ Len(c) >= 1
    /\ \A p \in 1..Len(c) : ~resolveAsin(c[p]).raise /\ ValidId(resolveAsin(c[p]).val)
    /\ \A p, q \in 1..Len(c) : p # q => resolveAsin(c[p]).val # resolveAsin(c[q]).val

\* the run returned one record per candidate, in node order, after exactly
\* two Extract cycles
ReturnsAllInOrder(c) ==
    /\ response.success
    /\ Len(response.items) = Len(c)
    /\ \A p \in 1..Len(c) : response.items[p].asin = resolveAsin(c[p]).val
    /\ nExtract = 2

FailingCandidate(t, n) ==
    /\ \E p \in 1..Len(findWishlistItems(t)) : findWishlistItems(t)[p] = n
    /\ ~Yields(n)

\* t without its failing candidates
RemoveFailing(t) ==
    LET Keep(n) == ~FailingCandidate(t, n)
    IN  [t EXCEPT !.nodes = SelectSeq(t.nodes, Keep)]

\* the run went through on a tree that never changed
StaticRunDone == pc = "done" /\ nExtract = 2 /\ ~treeChanged

\* C8 as stated: the result of a run equals the result of the same run with
\* the failing nodes removed from the tree.
C8_SameAsTreeWithoutFailing ==
    StaticRunDone => response = StaticResult(url, RemoveFailing(tree))

\* C8: a candidate whose extraction returns null or raises never aborts the
\* run and never suppresses its siblings: after every Extract cycle the
\* accumulated records and seen identifiers are those of the same cycles run
\* over the locator's candidates without the failing ones; the run never ends
\* with the exception of a node; and a run that passed the classifier fails
\* only with zero records, as NoItemsFound.
C8_FailingCandidatesSkipped ==
    /\ items = shadowItems /\ seenIds = shadowSeen
    /\ (pc = "done" /\ nExtract >= 1) =>
          /\ response = finish(shadowItems)
          /\ ~response.success => response.error = ErrNoItems /\ items = <<>>

\* a run on an unchanged tree returned the record of a candidate that stands
\* after a candidate whose extraction raised
C8_Witness ==
    /\ StaticRunDone /\ response.success
    /\ \E p, r \in 1..Len(findWishlistItems(tree)) :
          /\ p < r
          /\ extractItemData(findWishlistItems(tree)[p]).raise
          /\ Yields(findWishlistItems(tree)[r])
          /\ response.items[1] = extractItemData(findWishlistItems(tree)[r]).val

-----------------------------------------------------------------------------
(* Properties of the extractor functions *)

\* no identifier can be resolved for the node
NoIdentifier(n) == resolveAsin(n).raise \/ resolveAsin(n).val = <<>>

\* x is a 10-character alphanumeric string in any case
TenAlphanumerics(x) ==
    Len(x) = AsinLen /\ \A i \in 1..Len(x) : x[i] \in UpperChars \cup LowerChars \cup DigitChars

\* normalization yields uppercase(x) on the 10-character alphanumeric strings,
\* nothing on the others, and re-applying it changes nothing
NormalizationFixedPoint ==
    (arg.fn = "asin" /\ res # <<>>) =>
        /\ IF TenAlphanumerics(arg.x)
           THEN res[1] = toUpperCase(arg.x) /\ ValidId(res[1])
           ELSE res[1] = <<>>
        /\ Len(res) = 2 => res[2] = res[1]

\* every record of extractItemData carries a canonical identifier
RecordsCarryValidId ==
    (arg.fn = "node" /\ res # <<>> /\ IsRecord(res[1])) =>
        ValidId(res[1].val.asin) /\ ~NoIdentifier(arg.x)

NoQueryOrFragment(u) == ~includes(u, "?") /\ ~includes(u, "#")

\* h up to its first "?" or "#", without the slashes
NotSlash(c) == c # "/"
SchemeHostPath(h) == SelectSeq(Slice(h, 1, IndexFrom(h, 1, {"?", "#"}) - 1), NotSlash)

\* re-applying the cleaning to its result changes nothing
CleaningIdempotent == (arg.fn = "href" /\ Len(res) = 2) => res[2] = res[1]

IsAbsoluteUrl(u) ==
    \/ Len(u) >= 4 /\ u[1] \in SchemeTokens /\ u[2] = "/" /\ u[3] = "/" /\ u[4] # "/"
    \/ Len(u) >= 1 /\ u[1] = "data:image"

\* C11: the url of every record is an absolute URL and the image that
\* extractItemImage resolves is the empty string or an absolute URL, whatever
\* the form of the source value (descriptor key, data-src, src, fallback src).
C11_AlwaysAbsolute ==
    /\ (arg.fn = "image" /\ res # <<>>) => res[1] = <<>> \/ IsAbsoluteUrl(res[1])
    /\ (arg.fn = "node" /\ res # <<>> /\ IsRecord(res[1])) => IsAbsoluteUrl(res[1].val.url)

\* standard CSV decoding of the inside of a quoted field, from position i
RECURSIVE unquote(_, _, _)
unquote(s, i, acc) ==
    IF i > Len(s) THEN Raise
    ELSE IF s[i] # "\"" THEN unquote(s, i + 1, Append(acc, s[i]))
    ELSE IF i = Len(s) THEN Ok(acc)
    ELSE IF s[i + 1] = "\"" THEN unquote(s, i + 2, Append(acc, "\""))
    ELSE Raise

\* standard CSV decoding of one field: a quoted field, or a bare one without
\* separator, quote or line break
decodeCSVField(s) ==
    IF startsWith(s, "\"") THEN unquote(s, 2, <<>>)
    ELSE IF includes(s, ",") \/ includes(s, "\"") \/ includes(s, "\n") THEN Raise
    ELSE Ok(s)

Count(c, s) == Cardinality({i \in 1..Len(s) : s[i] = c})

HasCommaQuoteNewline(s) == s # Absent /\ includes(s, ",") /\ includes(s, "\"") /\ includes(s, "\n")

\* C12: a field with a comma, a double quote and a newline is written wrapped
\* in double quotes with every embedded quote doubled, and standard CSV
\* decoding of what was written gives the field back exactly.
C12_CsvRoundTrip ==
    (arg.fn = "csv" /\ res # <<>> /\ HasCommaQuoteNewline(arg.x)) =>
        /\ decodeCSVField(res[1]) = Ok(arg.x)
        /\ res[1][1] = "\"" /\ res[1][Len(res[1])] = "\""
        /\ Len(res[1]) = Len(arg.x) + Count("\"", arg.x) + 2
        /\ Count("\"", res[1]) = 2 * Count("\"", arg.x) + 2

\* a field with two quotes, a comma and a newline has been escaped
C12_Witness ==
    arg.fn = "csv" /\ res # <<>> /\ HasCommaQuoteNewline(arg.x) /\ Count("\"", arg.x) = 2

\* the last outcome logged
LastOutcome == worker.log[Len(worker.log)]

\* C13 as stated: once resolved, a first send without transport error gave its
\* response without injecting; otherwise the request was re-sent after the
\* injection, the first send without transport error gave its response, and
\* when every send failed the result is the communication failure.
C13_ResendsAndReturnsResponse ==
    worker.resolved >= 1 =>
        /\ worker.resolved = 1
        /\ worker.log[1] # LastError => worker.injections = 0 /\ worker.sends = 1
        /\ worker.log[1] = LastError =>
              worker.injections = 1 /\ worker.sends >= 2 /\ worker.sends <= retries + 2
        /\ LastOutcome # LastError => worker.result = LastOutcome
        /\ LastOutcome = LastError =>
              worker.result = Failure("Failed to communicate with content script")

\* send k of the call failed for every k below the last
FailedBefore == \A k \in 1..(Len(worker.log) - 1) : worker.log[k] = LastError

\* the result of a resolved call, from the outcomes of its sends
ResultOfLog ==
    IF LastOutcome # LastError THEN orNoResponse(LastOutcome)
    ELSE IF worker.sends = 1 THEN Failure("Failed to inject content script")
    ELSE Failure("Failed to communicate with content script")

\* C13: every call of injectAndScrape resolves, exactly once and with no send
\* after it. A first send without transport error resolves it without
\* injecting; otherwise the script is injected and, unless the injection fails
\* (which resolves the call with the injection failure), the request is re-sent
\* at most retries + 1 times. The first send without transport error resolves
\* the call with its response, or with the no-response failure when the
\* response is empty; when all retries + 1 re-sends fail the call resolves with
\* the communication failure.
C13_ResolvesOnce ==
    /\ [](worker.resolved >= 1 =>
            /\ worker.resolved = 1
            /\ worker.sends = Len(worker.log) /\ FailedBefore
            /\ worker.injections = (IF worker.sends = 1 /\ LastOutcome # LastError THEN 0 ELSE 1)
            /\ worker.sends <= retries + 2
            /\ LastOutcome = LastError => worker.sends \in {1, retries + 2}
            /\ worker.result = ResultOfLog)
    /\ [][worker.resolved >= 1 /\ worker'.requests = worker.requests
            => worker'.sends = worker.sends /\ worker'.result = worker.result]_vars
    /\ (worker.pc = "firstSend") ~> (worker.resolved = 1)

\* a call has resolved with the communication failure after retries + 1 re-sends
C13_Witness ==
    /\ worker.resolved = 1 /\ worker.sends = retries + 2
    /\ worker.result = Failure("Failed to communicate with content script")

\* the page text or markup holds one of the private/unavailable phrases and the
\* tree has no structural anchor
PhraseWithoutAnchors(t) ==
    /\ \E ind \in privateIndicators : includes(t.bodyText, ind) \/ includes(t.markupText, ind)
    /\ ~(t.gItems \/ t.dataWishlist \/ t.vertList)

\* a sign-in or error alert speaks of viewing or accessing the list
ListAccessAlert(t) ==
    \E a \in 1..Len(t.alerts) : \E ph \in promptPhrases : includes(t.alerts[a], ph)

\* C14: isPrivateWishlist is false whenever the locator matches a node,
\* whatever the page text, markup and alerts say, so a run ends as
\* PrivateOrInaccessible only when the locator found nothing at its start (and
\* before any Extract); with an empty locator it is false as well unless there
\* is a private phrase without structural anchors or list-access alert copy.
C14_NotPrivateWhenLocated ==
    /\ LocatorMatches(tree) => ~isPrivateWishlist(tree)
    /\ (pc = "done" /\ response = Failure(ErrPrivate)) => ~LocatorMatches(tree) /\ nExtract = 0
    /\ (~LocatorMatches(tree) /\ ~PhraseWithoutAnchors(tree) /\ ~ListAccessAlert(tree))
          => ~isPrivateWishlist(tree)

\* a run on a wishlist URL whose page shows a private phrase without anchors and
\* a list-access alert, but has a located node, has ended otherwise than private
C14_Witness ==
    /\ pc = "done" /\ hasWishlistInUrl(url) /\ response.error # ErrPrivate
    /\ LocatorMatches(tree) /\ PhraseWithoutAnchors(tree) /\ ListAccessAlert(tree)

\* node n matches strategy k
Matched(k, n) ==
    CASE k = 1 -> Strategy1(n) [] k = 2 -> Strategy2(n) [] k = 3 -> Strategy3(n)
      [] k = 4 -> Strategy4(n)

\* the nodes of t that strategy k matches, in document order
MatchSet(k, t) == LET M(n) == Matched(k, n) IN SelectSeq(t.nodes, M)

\* k is the first strategy that matches a node of t
FirstMatching(k, t) == MatchSet(k, t) # <<>> /\ \A j \in 1..(k - 1) : MatchSet(j, t) = <<>>

\* C15: findWishlistItems returns exactly the matches of the first of the four
\* strategies that matches a node, with no node that only a later strategy
\* matches, and returns nothing only when no strategy matches.
C15_FirstStrategyOnly ==
    /\ \A k \in 1..4 : FirstMatching(k, tree) => findWishlistItems(tree) = MatchSet(k, tree)
    /\ findWishlistItems(tree) = <<>> <=> \A k \in 1..4 : MatchSet(k, tree) = <<>>

\* a run has ended with records on a tree where the first matching strategy is
\* not the last and a node that only a later strategy matches gave no record
C15_Witness ==
    /\ pc = "done" /\ response.success /\ ~treeChanged
    /\ \E k \in 1..3 :
          /\ FirstMatching(k, tree)
          /\ \E p \in 1..Len(tree.nodes) :
                /\ ~Matched(k, tree.nodes[p]) /\ Strategy4(tree.nodes[p])
                /\ \A i \in 1..Len(items) : items[i].asin # toUpperCase(tree.nodes[p].dataAsin)

\* C16: extraction returns null only if none of the sources of the identifier
\* yields a valid 10-character code: the node's own identifier attributes, the
\* nearest ancestor's identifier attribute, and the product link of the node;
\* a present but invalid own attribute does not keep a later source from being
\* consulted.
C16_NullOnlyWithoutValidSource ==
    (arg.fn = "node" /\ res # <<>> /\ res[1] = Ok(NoItem)) =>
        /\ ~TenAlphanumerics(arg.x.dataAsin) /\ ~TenAlphanumerics(arg.x.dataItemId)
        /\ ~TenAlphanumerics(arg.x.ancestorAsin)
        /\ ~Truthy(arg.x.link) \/ hrefMatch(arg.x.link) = <<>>

\* the price of the element went through formatPrice
Formatted(priceEl) ==
    Truthy(priceEl.dataPrice) \/ (Truthy(priceEl.text) /\ priceMatch(priceEl.text) # Absent)

\* C17: a price that went through formatPrice has no thousands separator and
\* has the currency sign exactly once, as its first character, whatever the
\* attribute value or matched text was.
C17_OneLeadingCurrencySign ==
    (arg.fn = "price" /\ res # <<>> /\ Formatted(arg.x)) =>
        /\ ~includes(res[1], ",")
        /\ Count("$", res[1]) = 1
        /\ res[1][1] = "$"

\* C18: a run of scrapeWishlist starts from state of its own: what it has
\* collected holds no identifier twice, and a run after earlier runs on the same
\* unchanged tree ends with the response the run before it ended with, so
\* nothing the earlier run saw is suppressed.
C18_RunsStartFresh ==
    /\ pc # "idle" => \A i, j \in 1..Len(items) : items[i].asin = items[j].asin => i = j
    /\ (pc = "done" /\ earlier # <<>>) => response = earlier[Len(earlier)]

\* a second run on the same tree has ended with two records or more
C18_Witness ==
    /\ pc = "done" /\ Len(earlier) >= 1
    /\ response.success /\ Len(response.items) >= 2
    /\ seenIds # {}

====
